---- MODULE Spec2Model ----
(***************************************************************************)
(* Model of Gem.hpp: the XGeneric reference-counting and QueryInterface    *)
(* protocol (TGeneric, TInnerGeneric, CGenericBase and the interface-map   *)
(* macros).  One logical object "O" (a TGeneric<_Base>) with an optional   *)
(* aggregated member "N" (a TInnerGeneric<...>) is used by several caller  *)
(* threads.  The header exists in two definitions: ver = 1 is the one at   *)
(* lines 1-425, ver = 2 the one at lines 427-781.                          *)
(* Further runs use their own part of the state: TGemPtr handles over the  *)
(* objects "A" and "B" (SpecPtr, SpecAttach), the Result predicates        *)
(* Succeeded and Failed (SpecResult), and two-phase creation (SpecCreate). *)
(***************************************************************************)
EXTENDS Integers, Sequences, FiniteSets, TLC

\* ---------------------------------------------------------------- bounds
NumThreads == 2
NumWorkers == 2
MaxCount == 3
NumHandles == 2
ResultSpan == 12

\* ------------------------------------------------------- program constants
\* Interface identities are only ever compared for equality (switch / ==), so
\* each one is written as the text of its literal.
XGeneric_IId == "0xffffffff"
\* TLC integers are 32-bit, so a ULONG is written as the two's-complement
\* integer with the same 32 bits: 0xFFFFFFFF is -1, 0x80000000 is INT32_MIN.
INT32_MAX == 2147483647
INT32_MIN == (-INT32_MAX) - 1

\* ------------------------------------------------------------ value spaces
Threads == 1..NumThreads
Creator == 1
SeqThreads == 1..(NumWorkers + 1)
Workers == SeqThreads \ {Creator}

NULL == "nullptr"
Garbage == "uninit"
Outer == "O"
Member == "N"

OwnIIds == {"0x1"}
ContainedIIds == {"0x2"}
UnknownIIds == {"0x3"}
IIds == {XGeneric_IId} \cup OwnIIds \cup ContainedIIds \cup UnknownIIds

\* An object kind: which definition of TGeneric wraps it, which macro opens
\* its interface map, and the GEM_INTERFACE_ENTRY / GEM_CONTAINED_INTERFACE_ENTRY
\* lines it lists: a map with one own entry and possibly one contained entry,
\* a MAP0 map that lists XGeneric itself, and a class without a map.
Kinds ==
    [ver : {1, 2}, map : {"MAP", "MAP0"}, own : {OwnIIds},
     contained : SUBSET ContainedIIds]
    \cup [ver : {1, 2}, map : {"MAP0"}, own : {OwnIIds \cup {XGeneric_IId}},
          contained : {{}}]
    \cup [ver : {1, 2}, map : {"NONE"}, own : {{}}, contained : {{}}]

NoCall == [op |-> "none", this |-> NULL, iid |-> "", out |-> "none"]

\* TGemPtr handles, the objects they are pointed at, and the m_p of a handle
\* that is not constructed
Handles == 1..NumHandles
PtrObjs == {"A", "B"}
NoHandle == "nohandle"
NoOp == [op |-> "none", h |-> 0, src |-> 0, p |-> NULL]

VARIABLES
    kind,        \* the concrete kind of the object (fixed at construction)
    m_RefCount,  \* TGeneric::m_RefCount
    alive,       \* FALSE once delete(this) has run
    destroyedBy, \* one record per executed delete(this)
    fresh,       \* constructed, no reference taken yet
    pc,          \* per thread: position inside the call it is making
    call,        \* per thread: the call in progress or just returned
    result,      \* per thread: ULONG returned by AddRef / Release
    ret,         \* per thread: Gem::Result returned by QueryInterface
    ppObj,       \* per thread: content of the output location
    held,        \* per thread: references the thread owns
    known,       \* the pointers handed out to the callers so far
    script,      \* per thread: the calls of a scripted run
    ip,          \* per thread: how many calls of its script it has started
    spawned,     \* threads running under the creator's reference
    log,         \* scripted bursts: the values the calls have returned
    innerPresent,\* the aggregated member has been set up
    pver,        \* which definition of TGemPtr the handles are
    hp,          \* per handle: TGemPtr::m_p, or NoHandle while not constructed
    objRefCount, \* per handle-managed object: its m_RefCount
    oalive,      \* per handle-managed object: FALSE once deleted
    raw,         \* per object: references the caller owns outside handles
    hlast,       \* the last handle operation and its arguments
    hret,        \* what the last handle operation returned
    uaf,         \* a call was made through a pointer to a deleted object
    rs,          \* a Result value being classified
    cr           \* a two-phase creation in progress

\* the object shared by the caller threads
objvars == <<kind, m_RefCount, alive, destroyedBy, fresh, pc, call, result, ret,
             ppObj, held, known, script, ip, spawned>>

\* the handles and the objects they manage
ptrvars == <<pver, hp, objRefCount, oalive, raw, hlast, hret, uaf>>

\* everything but the shared object
aux == <<log, innerPresent, ptrvars, rs, cr>>

vars == <<kind, m_RefCount, alive, destroyedBy, fresh, pc, call, result, ret,
          ppObj, held, known, script, ip, spawned, log, innerPresent, pver,
          hp, objRefCount, oalive, raw, hlast, hret, uaf, rs, cr>>

\* ------------------------------------------------------------ pure helpers
RECURSIVE SumOver(_, _)
SumOver(f, S) ==
    IF S = {} THEN 0
    ELSE LET x == CHOOSE y \in S : TRUE IN f[x] + SumOver(f, S \ {x})

\* 32-bit wrap-around increment / decrement
InterlockedIncrement(v) == IF v = INT32_MAX THEN INT32_MIN ELSE v + 1
InterlockedDecrement(v) == IF v = INT32_MIN THEN INT32_MAX ELSE v - 1

\* variant: the incremented value is returned but not stored
TGeneric_InternalAddRef_Lost(rc) ==
    LET v == InterlockedIncrement(rc) IN [rc |-> rc, result |-> v]

\* variant: the value before the increment is returned
TGeneric_InternalAddRef_Old(rc) ==
    LET v == InterlockedIncrement(rc) IN [rc |-> v, result |-> rc]

\* TGeneric::InternalAddRef / AddRef: new count and returned value
TGeneric_InternalAddRef(rc) ==
    LET v == InterlockedIncrement(rc) IN [rc |-> v, result |-> v]

TGeneric_AddRef(rc) == TGeneric_InternalAddRef(rc)

\* variant: the decremented value is returned but not stored
TGeneric_InternalRelease_Lost(rc) ==
    LET v == InterlockedDecrement(rc) IN [rc |-> rc, result |-> v]

\* TGeneric::InternalRelease, first statement: the decrement
TGeneric_InternalRelease(rc) ==
    LET v == InterlockedDecrement(rc) IN [rc |-> v, result |-> v]

TGeneric_Release(rc) == TGeneric_InternalRelease(rc)

\* variant: delete(this) one reference too early
ReleaseDeletes_AtOne(res) == (res <= 1)

\* variant: the test reads the ULONG as a signed number
ReleaseDeletes_Signed(res) == (res <= 0)

\* TGeneric::InternalRelease, the test guarding delete(this)
ReleaseDeletes(res) == (0 = res)

\* TInnerGeneric forwards to _Base::m_pOuterGeneric, the containing object
TInnerGeneric_AddRef(rc) == TGeneric_AddRef(rc)

\* variant: the inner object counts for itself and leaves the outer alone
TInnerGeneric_Release_Own(rc) == [rc |-> rc, result |-> 0]

TInnerGeneric_Release(rc) == TGeneric_Release(rc)

\* virtual dispatch of XGeneric::AddRef / Release on pointer p
XGeneric_AddRef(p, rc) ==
    IF p = Member THEN TInnerGeneric_AddRef(rc) ELSE TGeneric_AddRef(rc)

XGeneric_Release(p, rc) ==
    IF p = Member THEN TInnerGeneric_Release(rc) ELSE TGeneric_Release(rc)

\* CGenericBase::InternalQueryInterface, the default resolver
CGenericBase_InternalQueryInterface(iid) ==
    [res |-> "NoInterface", write |-> TRUE, ppObj |-> NULL, addref |-> FALSE]

\* switch(iid) generated by the map macros: the pointer stored by the matching
\* case, NULL when control reaches default
MapSwitch(k, iid) ==
    IF k.map = "MAP" /\ iid = XGeneric_IId THEN Outer
    ELSE IF iid \in k.own THEN Outer
    ELSE IF iid \in k.contained THEN Member
    ELSE NULL

\* variant: the map does not clear *ppObj before the switch
Map_InternalQueryInterface_NoClear(k, iid) ==
    LET p == MapSwitch(k, iid) IN
    IF p = NULL
    THEN [res |-> "NoInterface", write |-> FALSE, ppObj |-> NULL, addref |-> FALSE]
    ELSE [res |-> "Success", write |-> TRUE, ppObj |-> p, addref |-> TRUE]

\* _Base::InternalQueryInterface as generated by BEGIN_.../END_GEM_INTERFACE_MAP
Map_InternalQueryInterface(k, iid) ==
    LET p == MapSwitch(k, iid) IN
    IF p = NULL
    THEN [res |-> "NoInterface", write |-> TRUE, ppObj |-> NULL, addref |-> FALSE]
    ELSE [res |-> "Success", write |-> TRUE, ppObj |-> p, addref |-> TRUE]

Base_InternalQueryInterface(k, iid) ==
    IF k.map = "NONE" THEN CGenericBase_InternalQueryInterface(iid)
    ELSE Map_InternalQueryInterface(k, iid)

\* TGeneric::InternalQueryInterface of the second definition
TGeneric_InternalQueryInterface(k, iid) ==
    IF XGeneric_IId = iid
    THEN [res |-> "Success", write |-> TRUE, ppObj |-> Outer, addref |-> TRUE]
    ELSE Base_InternalQueryInterface(k, iid)

\* variant: the map is consulted before ppObj is tested
TGeneric_QueryInterface_LateCheck(k, iid, ppNull) ==
    LET r == IF k.ver = 2 THEN TGeneric_InternalQueryInterface(k, iid)
             ELSE Base_InternalQueryInterface(k, iid) IN
    IF r.res = "NoInterface" THEN [r EXCEPT !.write = ~ppNull]
    ELSE IF ppNull
    THEN [res |-> "BadPointer", write |-> FALSE, ppObj |-> NULL, addref |-> FALSE]
    ELSE r

\* TGeneric::QueryInterface up to (not including) the AddRef of a match
TGeneric_QueryInterface(k, iid, ppNull) ==
    IF ppNull
    THEN [res |-> "BadPointer", write |-> FALSE, ppObj |-> NULL, addref |-> FALSE]
    ELSE IF k.ver = 2 THEN TGeneric_InternalQueryInterface(k, iid)
    ELSE Base_InternalQueryInterface(k, iid)

\* variant: the inner object answers the query for XGeneric itself
TInnerGeneric_QueryInterface_Local(k, iid, ppNull) ==
    IF ~ppNull /\ iid = XGeneric_IId
    THEN [res |-> "Success", write |-> TRUE, ppObj |-> Member, addref |-> TRUE]
    ELSE TGeneric_QueryInterface(k, iid, ppNull)

\* TInnerGeneric::QueryInterface forwards to _Base::m_pOuterGeneric
TInnerGeneric_QueryInterface(k, iid, ppNull) ==
    TGeneric_QueryInterface(k, iid, ppNull)

XGeneric_QueryInterface(p, k, iid, ppNull) ==
    IF p = Member THEN TInnerGeneric_QueryInterface(k, iid, ppNull)
    ELSE TGeneric_QueryInterface(k, iid, ppNull)

\* variant: a match returns without AddRef()
Match_AddRef_Omitted(rc) == [rc |-> rc, result |-> rc]

\* AddRef() called on a match (END_GEM_INTERFACE_MAP, or line 703)
Match_AddRef(rc) == TGeneric_AddRef(rc)

\* The interface identities the object's code resolves
MapEntries(k) ==
    k.own \cup k.contained \cup (IF k.map = "MAP" THEN {XGeneric_IId} ELSE {})

Implemented(k) ==
    MapEntries(k) \cup (IF k.ver = 2 THEN {XGeneric_IId} ELSE {})

\* ------------------------------------------------------------ Gem::Result
\* The first definition is "enum class Result : INT32" with Fail = -1 and the
\* failures below it; the second is "enum class Result : UINT32" with
\* Fail = 0x80000000 and the failures above it.  A UINT32 is written as the
\* integer with the same 32 bits.
Result_Success == 0
Result_End == 1
Result_Fail(ver) == IF ver = 1 THEN -1 ELSE INT32_MIN

\* Fail, InvalidArg, NotFound, OutOfMemory, NoInterface, BadPointer,
\* NotImplemented, Unavailable, Uninitialized, in the order of the enum
FailureNames ==
    <<"Fail", "InvalidArg", "NotFound", "OutOfMemory", "NoInterface",
      "BadPointer", "NotImplemented", "Unavailable", "Uninitialized">>

\* the value of the i-th failure enumerator
Result_Failure(ver, i) ==
    IF ver = 1 THEN Result_Fail(1) - (i - 1) ELSE Result_Fail(2) + (i - 1)

NamedFailures(ver) == {Result_Failure(ver, i) : i \in 1..Len(FailureNames)}

\* a < b for two UINT32 given by their 32 bits
UnsignedLess(a, b) == IF (a < 0) = (b < 0) THEN a < b ELSE b < 0

\* the comparison of two Result values in their underlying type
ResultLess(ver, a, b) == IF ver = 1 THEN a < b ELSE UnsignedLess(a, b)

\* Succeeded: result >= Success (first), result < Fail (second)
Succeeded(ver, r) ==
    IF ver = 1 THEN ~ResultLess(1, r, Result_Success)
    ELSE ResultLess(2, r, Result_Fail(2))

\* variant: the boundary value is left out
Failed_Strict(ver, r) ==
    IF ver = 1 THEN ResultLess(1, r, Result_Fail(1))
    ELSE ResultLess(2, Result_Fail(2), r)

\* Failed: result < Success (first), result >= Fail (second)
Failed(ver, r) ==
    IF ver = 1 THEN ResultLess(1, r, Result_Success)
    ELSE ~ResultLess(2, r, Result_Fail(2))

\* variant: the error object always carries Fail
GemError_Result_Fail(ver, r) == Result_Fail(ver)

\* GemError::GemError(Result result) and Result(): the code the error carries.
\* The first definition stores Fail for a result that is >= Success.
GemError_Result(ver, r) ==
    IF ver = 1
    THEN IF ~ResultLess(1, r, Result_Success) THEN Result_Fail(1) ELSE r
    ELSE r

\* ThrowGemError(result): whether it throws, and the code of the GemError
ThrowGemError(ver, r) ==
    IF Failed(ver, r)
    THEN [thrown |-> TRUE, error |-> GemError_Result(ver, r)]
    ELSE [thrown |-> FALSE, error |-> 0]

\* ------------------------------------------------------------------- Init
\* the parts of the state a run does not use
PtrParked ==
    /\ pver = 1
    /\ hp = [h \in Handles |-> NoHandle]
    /\ objRefCount = [o \in PtrObjs |-> 0]
    /\ oalive = [o \in PtrObjs |-> TRUE]
    /\ raw = [o \in PtrObjs |-> 0]
    /\ hlast = NoOp
    /\ hret = "none"
    /\ uaf = FALSE

RsParked ==
    rs = [ver |-> 1, val |-> 0, phase |-> "parked", succeeded |-> FALSE,
          failed |-> FALSE]

CrParked ==
    cr = [ver |-> 1, hook |-> 0, phase |-> "parked", obj |-> "none",
          thrown |-> FALSE, error |-> 0, ret |-> 0, ptr |-> NULL, count |-> 0]

AuxParked ==
    /\ log = <<>>
    /\ innerPresent = TRUE
    /\ PtrParked
    /\ RsParked
    /\ CrParked

\* the shared object after construction, with its callers
ObjInit(T) ==
    /\ kind \in Kinds
    /\ m_RefCount = 0
    /\ alive = TRUE
    /\ destroyedBy = <<>>
    /\ fresh = TRUE
    /\ pc = [t \in T |-> "idle"]
    /\ call = [t \in T |-> NoCall]
    /\ result = [t \in T |-> 0]
    /\ ret = [t \in T |-> "none"]
    /\ ppObj = [t \in T |-> Garbage]
    /\ held = [t \in T |-> 0]
    /\ known = {Outer}
    /\ ip = [t \in T |-> 0]
    /\ spawned = {}

InitCommon(T) == AuxParked /\ ObjInit(T)

Init ==
    /\ InitCommon(Threads)
    /\ script = [t \in Threads |-> <<>>]

\* A caller may use a pointer while it owns a reference, while it is the
\* creator of a just-constructed object, or while it runs under the creator's
\* reference.
CanCall(t) ==
    /\ pc[t] = "idle"
    /\ alive
    /\ \/ held[t] > 0
       \/ t = Creator /\ fresh
       \/ t \in spawned

\* ---------------------------------------------------------------- actions
\* p->AddRef()
AddRefBody(t, p) ==
    LET r == XGeneric_AddRef(p, m_RefCount) IN
    /\ m_RefCount' = r.rc
    /\ result' = [result EXCEPT ![t] = r.result]
    /\ held' = [held EXCEPT ![t] = @ + 1]
    /\ fresh' = FALSE
    /\ call' = [call EXCEPT ![t] = [op |-> "AddRef", this |-> p, iid |-> "", out |-> "none"]]
    /\ pc' = [pc EXCEPT ![t] = "returned"]
    /\ UNCHANGED <<kind, alive, destroyedBy, ret, ppObj, known, spawned>>

\* p->Release(), the InterlockedDecrement
ReleaseDecBody(t, p) ==
    LET r == XGeneric_Release(p, m_RefCount) IN
    /\ m_RefCount' = r.rc
    /\ result' = [result EXCEPT ![t] = r.result]
    /\ held' = [held EXCEPT ![t] = @ - 1]
    /\ call' = [call EXCEPT ![t] = [op |-> "Release", this |-> p, iid |-> "", out |-> "none"]]
    /\ pc' = [pc EXCEPT ![t] = "rel_check"]
    /\ UNCHANGED <<kind, alive, destroyedBy, fresh, ret, ppObj, known, spawned>>

\* p->Release(), the test of the result, delete(this) and the return
ReleaseFinish(t) ==
    /\ pc[t] = "rel_check"
    /\ IF ReleaseDeletes(result[t])
       THEN /\ alive' = FALSE
            /\ destroyedBy' = Append(destroyedBy,
                   [t |-> t, observed |-> result[t], this |-> call[t].this])
       ELSE UNCHANGED <<alive, destroyedBy>>
    /\ pc' = [pc EXCEPT ![t] = "returned"]
    /\ UNCHANGED <<kind, m_RefCount, fresh, call, result, ret, ppObj, held,
                   known, script, ip, spawned>>
    /\ UNCHANGED aux

\* p->QueryInterface(iid, ppObj) up to the AddRef of a match
QueryInterfaceBody(t, p, iid, out) ==
    LET r == XGeneric_QueryInterface(p, kind, iid, out = "null") IN
    /\ call' = [call EXCEPT ![t] = [op |-> "QueryInterface", this |-> p, iid |-> iid, out |-> out]]
    /\ ppObj' = [ppObj EXCEPT ![t] = IF r.write THEN r.ppObj ELSE @]
    /\ ret' = [ret EXCEPT ![t] = IF r.addref THEN "none" ELSE r.res]
    /\ pc' = [pc EXCEPT ![t] = IF r.addref THEN "qi_addref" ELSE "returned"]
    /\ UNCHANGED <<kind, m_RefCount, alive, destroyedBy, fresh, result, held,
                   known, spawned>>

\* the AddRef() of a matched query and its return of Success
QueryInterfaceAddRef(t) ==
    /\ pc[t] = "qi_addref"
    /\ LET r == Match_AddRef(m_RefCount) IN
       /\ m_RefCount' = r.rc
       /\ held' = [held EXCEPT ![t] = @ + 1]
    /\ fresh' = FALSE
    /\ ret' = [ret EXCEPT ![t] = "Success"]
    /\ pc' = [pc EXCEPT ![t] = "returned"]
    /\ UNCHANGED <<kind, alive, destroyedBy, call, result, ppObj, known,
                   script, ip, spawned>>
    /\ UNCHANGED aux

\* a pointer the caller can make calls through: the object, or its member
\* once that has been set up
Usable(v) == v = Outer \/ (v = Member /\ innerPresent)

\* the caller takes the returned values and goes on
Return(t) ==
    /\ pc[t] = "returned"
    /\ known' = IF call[t].op = "QueryInterface" /\ ret[t] = "Success"
                THEN known \cup {v \in {ppObj[t]} : Usable(v)} ELSE known
    /\ call' = [call EXCEPT ![t] = NoCall]
    /\ result' = [result EXCEPT ![t] = 0]
    /\ ret' = [ret EXCEPT ![t] = "none"]
    /\ ppObj' = [ppObj EXCEPT ![t] = Garbage]
    /\ pc' = [pc EXCEPT ![t] = "idle"]
    /\ UNCHANGED <<kind, m_RefCount, alive, destroyedBy, fresh, held,
                   script, ip, spawned>>
    /\ UNCHANGED aux

\* free-running callers
AddRef(t) ==
    /\ CanCall(t)
    /\ m_RefCount < MaxCount
    /\ \E p \in known : AddRefBody(t, p)
    /\ UNCHANGED <<script, ip>>
    /\ UNCHANGED aux

Release(t) ==
    /\ CanCall(t)
    /\ held[t] > 0
    /\ \E p \in known : ReleaseDecBody(t, p)
    /\ UNCHANGED <<script, ip>>
    /\ UNCHANGED aux

QueryInterface(t) ==
    /\ CanCall(t)
    /\ m_RefCount < MaxCount
    /\ \E p \in known, iid \in IIds, out \in {"null", "valid"} :
          QueryInterfaceBody(t, p, iid, out)
    /\ UNCHANGED <<script, ip>>
    /\ UNCHANGED aux

\* a counted reference is moved to another thread (TGemPtr move construction)
HandOff(t, u) ==
    /\ t # u
    /\ pc[t] = "idle" /\ pc[u] = "idle"
    /\ held[t] > 0
    /\ held' = [held EXCEPT ![t] = @ - 1, ![u] = @ + 1]
    /\ UNCHANGED <<known, kind, m_RefCount, alive, destroyedBy, fresh, pc, call,
                   result, ret, ppObj, script, ip, spawned>>
    /\ UNCHANGED aux

Next ==
    \E t \in Threads :
        \/ AddRef(t)
        \/ Release(t)
        \/ ReleaseFinish(t)
        \/ QueryInterface(t)
        \/ QueryInterfaceAddRef(t)
        \/ Return(t)
        \/ \E u \in Threads : HandOff(t, u)

Spec == Init /\ [][Next]_vars

\* ------------------------------------------------------------ scripted runs
\* The creator takes the first reference and then either makes the calls
\* AddRef, Release, Release itself, or starts the workers (each AddRef then
\* Release on the creator's pointer), joins them and makes the final Release.
ScriptAlone == <<"AddRef", "AddRef", "Release", "Release">>
ScriptJoin == <<"AddRef", "Spawn", "Join", "Release">>
ScriptWorker == <<"AddRef", "Release">>

InitSeq ==
    /\ InitCommon(SeqThreads)
    /\ script \in [SeqThreads -> {ScriptAlone, ScriptJoin, ScriptWorker}]
    /\ script[Creator] \in {ScriptAlone, ScriptJoin}
    /\ \A w \in Workers : script[w] = ScriptWorker

NextOp(t) == IF ip[t] < Len(script[t]) THEN script[t][ip[t] + 1] ELSE "end"

Advance(t) == ip' = [ip EXCEPT ![t] = @ + 1] /\ UNCHANGED script

SeqAddRef(t) ==
    /\ CanCall(t)
    /\ NextOp(t) = "AddRef"
    /\ AddRefBody(t, Outer)
    /\ Advance(t)
    /\ UNCHANGED aux

SeqRelease(t) ==
    /\ CanCall(t)
    /\ held[t] > 0
    /\ NextOp(t) = "Release"
    /\ ReleaseDecBody(t, Outer)
    /\ Advance(t)
    /\ UNCHANGED aux

\* the creator starts the worker threads, lending them its pointer
Spawn(t) ==
    /\ pc[t] = "idle" /\ held[t] > 0
    /\ NextOp(t) = "Spawn"
    /\ spawned' = Workers
    /\ UNCHANGED known
    /\ Advance(t)
    /\ UNCHANGED <<kind, m_RefCount, alive, destroyedBy, fresh, pc, call,
                   result, ret, ppObj, held>>
    /\ UNCHANGED aux

\* the creator waits for every worker to finish
Join(t) ==
    /\ pc[t] = "idle"
    /\ NextOp(t) = "Join"
    /\ \A w \in spawned : pc[w] = "idle" /\ NextOp(w) = "end"
    /\ spawned' = {}
    /\ UNCHANGED known
    /\ Advance(t)
    /\ UNCHANGED <<kind, m_RefCount, alive, destroyedBy, fresh, pc, call,
                   result, ret, ppObj, held>>
    /\ UNCHANGED aux

NextSeq ==
    \E t \in SeqThreads :
        \/ SeqAddRef(t)
        \/ SeqRelease(t)
        \/ ReleaseFinish(t)
        \/ Return(t)
        \/ Spawn(t)
        \/ Join(t)

SpecSeq == InitSeq /\ [][NextSeq]_vars

\* ------------------------------------------------- callers without a count
\* Callers that may also call Release on a just-constructed object, whose
\* m_RefCount is still 0.  No call is started on an object whose destruction
\* has begun: a Release has already obtained 0 from its decrement.
TearingDown == \E u \in Threads : pc[u] = "rel_check" /\ result[u] = 0

LooseAddRef(t) == ~TearingDown /\ AddRef(t)

LooseRelease(t) == ~TearingDown /\ Release(t)

LooseQueryInterface(t) == ~TearingDown /\ QueryInterface(t)

\* p->Release() without an owned reference: the InterlockedDecrement
ReleaseUnowned(t) ==
    /\ ~TearingDown
    /\ CanCall(t)
    /\ held[t] = 0
    /\ m_RefCount = 0
    /\ \E p \in known :
          LET r == XGeneric_Release(p, m_RefCount) IN
          /\ m_RefCount' = r.rc
          /\ result' = [result EXCEPT ![t] = r.result]
          /\ call' = [call EXCEPT ![t] = [op |-> "Release", this |-> p, iid |-> "", out |-> "none"]]
          /\ pc' = [pc EXCEPT ![t] = "rel_check"]
    /\ UNCHANGED <<kind, alive, destroyedBy, fresh, ret, ppObj, held, known,
                   spawned, script, ip>>
    /\ UNCHANGED aux

NextLoose ==
    \E t \in Threads :
        \/ LooseAddRef(t)
        \/ LooseRelease(t)
        \/ ReleaseUnowned(t)
        \/ ReleaseFinish(t)
        \/ LooseQueryInterface(t)
        \/ QueryInterfaceAddRef(t)
        \/ Return(t)
        \/ \E u \in Threads : HandOff(t, u)

\* the first definition's kind whose map has every sort of entry (own,
\* contained, XGeneric)
LooseKinds == {k \in Kinds : k.ver = 1 /\ k.map = "MAP" /\ k.contained # {}}

InitLoose == Init /\ kind \in LooseKinds

SpecLoose == InitLoose /\ [][NextLoose]_vars

\* ------------------------------------------------------- TGemPtr handles
\* The handles are used by one thread.  A heap S is the record of the m_p of
\* every handle and the m_RefCount / deleted state of every object; each
\* member function of TGemPtr is a function from heap to heap, statement by
\* statement.
CurHeap == [hp |-> hp, rc |-> objRefCount, alive |-> oalive, uaf |-> uaf]

SetHeap(S) ==
    /\ hp' = S.hp
    /\ objRefCount' = S.rc
    /\ oalive' = S.alive
    /\ uaf' = S.uaf

\* what a call through a pointer to a deleted object may leave in the freed
\* storage where m_RefCount was
FreedStorage == {-1, 0, 1}

\* m_p->AddRef(); through a dangling pointer the behaviour is undefined
Obj_AddRef(S, o, g) ==
    IF S.alive[o]
    THEN [S EXCEPT !.rc[o] = XGeneric_AddRef(Outer, @).rc]
    ELSE [S EXCEPT !.rc[o] = g, !.uaf = TRUE]

\* m_p->Release(), with the delete(this) of TGeneric::InternalRelease
Obj_Release(S, o, g) ==
    IF S.alive[o]
    THEN LET r == XGeneric_Release(Outer, S.rc[o]) IN
         [S EXCEPT !.rc[o] = r.rc, !.alive[o] = ~ReleaseDeletes(r.result)]
    ELSE [S EXCEPT !.rc[o] = g, !.uaf = TRUE]

\* TGemPtr() = default
TGemPtr_Default(S, h) == [S EXCEPT !.hp[h] = NULL]

\* TGemPtr(_Type *p)
TGemPtr_FromRaw(S, h, p, g) ==
    LET S1 == [S EXCEPT !.hp[h] = p] IN
    IF S1.hp[h] # NULL THEN Obj_AddRef(S1, S1.hp[h], g) ELSE S1

\* TGemPtr(const TGemPtr &o)
TGemPtr_Copy(S, h, o, g) ==
    LET S1 == [S EXCEPT !.hp[h] = S.hp[o]] IN
    IF S1.hp[h] # NULL THEN Obj_AddRef(S1, S1.hp[h], g) ELSE S1

\* TGemPtr(TGemPtr &&o)
TGemPtr_Move(S, h, o) ==
    LET S1 == [S EXCEPT !.hp[h] = S.hp[o]] IN [S1 EXCEPT !.hp[o] = NULL]

\* ~TGemPtr()
TGemPtr_Dtor(S, h, g) ==
    LET S1 == IF S.hp[h] # NULL THEN Obj_Release(S, S.hp[h], g) ELSE S IN
    [S1 EXCEPT !.hp[h] = NoHandle]

\* Detach(): the handle afterwards
TGemPtr_Detach(S, h) == [S EXCEPT !.hp[h] = NULL]

\* Detach(): what the caller gets.  The first definition is
\* "_Type *Detach()" and returns pOut, the second is "void Detach()"
TGemPtr_Detach_Returns(ver, m_p) == IF ver = 1 THEN m_p ELSE "void"

\* Attach(_Type *p), first definition only
TGemPtr_Attach(S, h, p, g) ==
    LET S1 == IF S.hp[h] # NULL THEN Obj_Release(S, S.hp[h], g) ELSE S IN
    [S1 EXCEPT !.hp[h] = p]

\* operator=(_Type *p)
TGemPtr_AssignRaw(S, h, p, g) ==
    LET S1 == IF S.hp[h] # NULL THEN Obj_Release(S, S.hp[h], g) ELSE S
        S2 == [S1 EXCEPT !.hp[h] = p]
    IN  IF p # NULL THEN Obj_AddRef(S2, S2.hp[h], g) ELSE S2

\* operator=(const TGemPtr &o)
TGemPtr_AssignCopy(S, h, o, g) ==
    LET temp == S.hp[h]
        S1 == [S EXCEPT !.hp[h] = S.hp[o]]
    IN  IF temp # S1.hp[h]
        THEN LET S2 == IF S1.hp[h] # NULL
                       THEN Obj_AddRef(S1, S1.hp[h], g) ELSE S1
             IN  IF temp # NULL THEN Obj_Release(S2, temp, g) ELSE S2
        ELSE S1

\* operator=(TGemPtr &&o)
TGemPtr_AssignMove(S, h, o, g) ==
    LET S1 == IF S.hp[h] # S.hp[o]
              THEN LET temp == S.hp[h]
                       Sa == [S EXCEPT !.hp[h] = S.hp[o]]
                   IN  IF temp # NULL THEN Obj_Release(Sa, temp, g) ELSE Sa
              ELSE S
    IN  [S1 EXCEPT !.hp[o] = NULL]

\* the raw pointers the caller can pass: null, or an object not yet deleted
RawArgs == {NULL} \cup {o \in PtrObjs : oalive[o]}

Constructed(h) == hp[h] # NoHandle

\* an operation that calls AddRef on o stays within the modelled counts
Room(o) == o \in PtrObjs => objRefCount[o] < MaxCount

PtrFrame == UNCHANGED <<objvars, log, innerPresent, rs, cr, pver>>

PtrOp(S, op, h, src, p, returned) ==
    /\ SetHeap(S)
    /\ hlast' = [op |-> op, h |-> h, src |-> src, p |-> p]
    /\ hret' = returned
    /\ PtrFrame

PtrDefault(h) ==
    /\ ~uaf /\ ~Constructed(h)
    /\ PtrOp(TGemPtr_Default(CurHeap, h), "Default", h, 0, NULL, "none")
    /\ UNCHANGED raw

PtrFromRaw(h) ==
    /\ ~uaf /\ ~Constructed(h)
    /\ \E p \in RawArgs, g \in FreedStorage :
          /\ Room(p)
          /\ PtrOp(TGemPtr_FromRaw(CurHeap, h, p, g), "FromRaw", h, 0, p, "none")
    /\ UNCHANGED raw

PtrCopy(h) ==
    /\ ~uaf /\ ~Constructed(h)
    /\ \E o \in Handles \ {h}, g \in FreedStorage :
          /\ Constructed(o) /\ Room(hp[o])
          /\ PtrOp(TGemPtr_Copy(CurHeap, h, o, g), "Copy", h, o, NULL, "none")
    /\ UNCHANGED raw

PtrMove(h) ==
    /\ ~uaf /\ ~Constructed(h)
    /\ \E o \in Handles \ {h} :
          /\ Constructed(o)
          /\ PtrOp(TGemPtr_Move(CurHeap, h, o), "Move", h, o, NULL, "none")
    /\ UNCHANGED raw

PtrDtor(h) ==
    /\ ~uaf /\ Constructed(h)
    /\ \E g \in FreedStorage :
          PtrOp(TGemPtr_Dtor(CurHeap, h, g), "Dtor", h, 0, NULL, "none")
    /\ UNCHANGED raw

\* the caller owns the reference of a pointer it detached
PtrDetach(h) ==
    /\ ~uaf /\ Constructed(h)
    /\ PtrOp(TGemPtr_Detach(CurHeap, h), "Detach", h, 0, NULL,
             TGemPtr_Detach_Returns(pver, hp[h]))
    /\ raw' = IF hp[h] # NULL THEN [raw EXCEPT ![hp[h]] = @ + 1] ELSE raw

PtrAssignRaw(h) ==
    /\ ~uaf /\ Constructed(h)
    /\ \E p \in RawArgs, g \in FreedStorage :
          /\ Room(p)
          /\ PtrOp(TGemPtr_AssignRaw(CurHeap, h, p, g), "AssignRaw", h, 0, p, "none")
    /\ UNCHANGED raw

PtrAssignCopy(h) ==
    /\ ~uaf /\ Constructed(h)
    /\ \E o \in Handles, g \in FreedStorage :
          /\ Constructed(o) /\ Room(hp[o])
          /\ PtrOp(TGemPtr_AssignCopy(CurHeap, h, o, g), "AssignCopy", h, o, NULL, "none")
    /\ UNCHANGED raw

PtrAssignMove(h) ==
    /\ ~uaf /\ Constructed(h)
    /\ \E o \in Handles, g \in FreedStorage :
          /\ Constructed(o)
          /\ PtrOp(TGemPtr_AssignMove(CurHeap, h, o, g), "AssignMove", h, o, NULL, "none")
    /\ UNCHANGED raw

\* the caller passes a pointer to an object that is referenced, and hands
\* over a reference it owns, if it owns one
PtrAttach(h) ==
    /\ ~uaf /\ Constructed(h)
    /\ pver = 1
    /\ \E p \in RawArgs, g \in FreedStorage :
          /\ p # NULL => objRefCount[p] > 0
          /\ PtrOp(TGemPtr_Attach(CurHeap, h, p, g), "Attach", h, 0, p, "none")
          /\ raw' = IF p # NULL /\ raw[p] > 0
                    THEN [raw EXCEPT ![p] = @ - 1] ELSE raw

\* the caller's own p->AddRef() and p->Release()
RawAddRef(o) ==
    /\ ~uaf /\ oalive[o] /\ Room(o)
    /\ PtrOp(Obj_AddRef(CurHeap, o, 0), "RawAddRef", 0, 0, o, "none")
    /\ raw' = [raw EXCEPT ![o] = @ + 1]

RawRelease(o) ==
    /\ ~uaf /\ oalive[o] /\ raw[o] > 0
    /\ PtrOp(Obj_Release(CurHeap, o, 0), "RawRelease", 0, 0, o, "none")
    /\ raw' = [raw EXCEPT ![o] = @ - 1]

\* the shared object of the caller threads is not used by the handle runs
ObjParked ==
    /\ kind = [ver |-> 1, map |-> "NONE", own |-> {}, contained |-> {}]
    /\ m_RefCount = 0
    /\ alive = TRUE
    /\ destroyedBy = <<>>
    /\ fresh = TRUE
    /\ pc = [t \in Threads |-> "idle"]
    /\ call = [t \in Threads |-> NoCall]
    /\ result = [t \in Threads |-> 0]
    /\ ret = [t \in Threads |-> "none"]
    /\ ppObj = [t \in Threads |-> Garbage]
    /\ held = [t \in Threads |-> 0]
    /\ known = {Outer}
    /\ script = [t \in Threads |-> <<>>]
    /\ ip = [t \in Threads |-> 0]
    /\ spawned = {}

InitPtr ==
    /\ ObjParked
    /\ log = <<>>
    /\ innerPresent = TRUE
    /\ RsParked
    /\ CrParked
    /\ pver \in {1, 2}
    /\ hp = [h \in Handles |-> NoHandle]
    /\ objRefCount = [o \in PtrObjs |-> 0]
    /\ oalive = [o \in PtrObjs |-> TRUE]
    /\ raw = [o \in PtrObjs |-> 0]
    /\ hlast = NoOp
    /\ hret = "none"
    /\ uaf = FALSE

NextPtr ==
    \/ \E h \in Handles :
        \/ PtrDefault(h)
        \/ PtrFromRaw(h)
        \/ PtrCopy(h)
        \/ PtrMove(h)
        \/ PtrDtor(h)
        \/ PtrDetach(h)
        \/ PtrAssignRaw(h)
        \/ PtrAssignCopy(h)
        \/ PtrAssignMove(h)
    \/ \E o \in PtrObjs :
        \/ RawAddRef(o)
        \/ RawRelease(o)

SpecPtr == InitPtr /\ [][NextPtr]_vars

NextAttach ==
    \/ NextPtr
    \/ \E h \in Handles : PtrAttach(h)

SpecAttach == InitPtr /\ [][NextAttach]_vars

\* ------------------------------------------------- classifying a Result
\* the Result values tried: around 0, and at both ends of the 32-bit range
ResultSamples ==
    ((-ResultSpan)..ResultSpan)
    \cup {INT32_MIN + i : i \in 0..ResultSpan}
    \cup {INT32_MAX - i : i \in 0..ResultSpan}

InitResult ==
    /\ ObjParked
    /\ log = <<>>
    /\ innerPresent = TRUE
    /\ PtrParked
    /\ CrParked
    /\ rs \in [ver : {1, 2}, val : ResultSamples, phase : {"input"},
               succeeded : {FALSE}, failed : {FALSE}]

\* the caller evaluates Succeeded(result) and Failed(result)
Classify ==
    /\ rs.phase = "input"
    /\ rs' = [rs EXCEPT !.phase = "classified",
                        !.succeeded = Succeeded(rs.ver, rs.val),
                        !.failed = Failed(rs.ver, rs.val)]
    /\ UNCHANGED <<objvars, log, innerPresent, ptrvars, cr>>

NextResult == Classify

SpecResult == InitResult /\ [][NextResult]_vars

\* ------------------------------------------------------- scripted bursts
\* The creator takes n references and starts the workers; every worker then
\* makes the same single call on the creator's pointer, all AddRef or all
\* Release, concurrently.  For a burst of Release the creator hands one of
\* its references to each worker.  The value each call returns is logged.
BurstCounts == {NumWorkers, NumWorkers + 1}

ScriptBurst(n) == [i \in 1..(n + 1) |-> IF i <= n THEN "AddRef" ELSE "Spawn"]

InitBurst ==
    /\ InitCommon(SeqThreads)
    /\ \E n \in BurstCounts, op \in {"AddRef", "Release"} :
          script = [t \in SeqThreads |->
                       IF t = Creator THEN ScriptBurst(n) ELSE <<op>>]

Logged(t, op) ==
    log' = Append(log, [t |-> t, op |-> op, value |-> result'[t]])

BurstAddRef(t) ==
    /\ CanCall(t)
    /\ NextOp(t) = "AddRef"
    /\ AddRefBody(t, Outer)
    /\ Advance(t)
    /\ Logged(t, "AddRef")
    /\ UNCHANGED <<innerPresent, ptrvars, rs, cr>>

BurstRelease(t) ==
    /\ CanCall(t)
    /\ held[t] > 0
    /\ NextOp(t) = "Release"
    /\ ReleaseDecBody(t, Outer)
    /\ Advance(t)
    /\ Logged(t, "Release")
    /\ UNCHANGED <<innerPresent, ptrvars, rs, cr>>

BurstSpawn(t) ==
    /\ pc[t] = "idle" /\ held[t] >= NumWorkers
    /\ NextOp(t) = "Spawn"
    /\ spawned' = Workers
    /\ held' = IF \A w \in Workers : script[w] = <<"Release">>
               THEN [u \in SeqThreads |->
                        IF u = t THEN held[t] - NumWorkers ELSE held[u] + 1]
               ELSE held
    /\ Advance(t)
    /\ UNCHANGED <<kind, m_RefCount, alive, destroyedBy, fresh, pc, call,
                   result, ret, ppObj, known>>
    /\ UNCHANGED aux

NextBurst ==
    \E t \in SeqThreads :
        \/ BurstAddRef(t)
        \/ BurstRelease(t)
        \/ ReleaseFinish(t)
        \/ Return(t)
        \/ BurstSpawn(t)

SpecBurst == InitBurst /\ [][NextBurst]_vars

\* ---------------------------------------------- a member never set up
\* An object whose map has a GEM_CONTAINED_INTERFACE_ENTRY for a member that
\* holds no inner object.
InitAbsent ==
    /\ ObjInit(Threads)
    /\ script = [t \in Threads |-> <<>>]
    /\ kind.contained # {}
    /\ log = <<>>
    /\ innerPresent = FALSE
    /\ PtrParked
    /\ RsParked
    /\ CrParked

SpecAbsent == InitAbsent /\ [][Next]_vars

\* ------------------------------------------------- two-phase creation
\* Create(arguments...): phase 1 constructs the TGeneric (m_RefCount = 0) or
\* fails with OutOfMemory; phase 2 runs the initialization hook, whose
\* failure is raised with ThrowGemError; Create catches the GemError,
\* destroys the object and returns the code the error carries.  Otherwise it
\* takes the first reference and returns the pointer with Success.
Result_OutOfMemory(ver) == Result_Failure(ver, 4)

InitCreate ==
    /\ ObjParked
    /\ log = <<>>
    /\ innerPresent = TRUE
    /\ PtrParked
    /\ RsParked
    /\ cr \in [ver : {1, 2}, hook : ResultSamples, phase : {"start"},
               obj : {"none"}, thrown : {FALSE}, error : {0}, ret : {0},
               ptr : {NULL}, count : {0}]

CreateFrame == UNCHANGED <<objvars, log, innerPresent, ptrvars, rs>>

\* phase 1: new TGeneric<_Base>(arguments...)
CreateConstruct ==
    /\ cr.phase = "start"
    /\ \/ cr' = [cr EXCEPT !.phase = "constructed", !.obj = "constructed",
                           !.count = 0]
       \/ cr' = [cr EXCEPT !.phase = "returned",
                           !.ret = Result_OutOfMemory(cr.ver)]
    /\ CreateFrame

\* phase 2: ThrowGemError(Initialize())
CreateInitialize ==
    /\ cr.phase = "constructed"
    /\ LET e == ThrowGemError(cr.ver, cr.hook) IN
       cr' = IF e.thrown
             THEN [cr EXCEPT !.phase = "thrown", !.thrown = TRUE,
                             !.error = e.error]
             ELSE [cr EXCEPT !.phase = "initialized", !.obj = "initialized"]
    /\ CreateFrame

\* catch (GemError &e): the object is destroyed, Create returns e.Result()
CreateUnwind ==
    /\ cr.phase = "thrown"
    /\ cr' = [cr EXCEPT !.phase = "returned", !.obj = "destroyed",
                        !.ret = cr.error, !.ptr = NULL]
    /\ CreateFrame

\* the object is handed out with its first reference
CreateReturn ==
    /\ cr.phase = "initialized"
    /\ cr' = [cr EXCEPT !.phase = "returned", !.obj = "live",
                        !.count = TGeneric_AddRef(cr.count).rc,
                        !.ret = Result_Success, !.ptr = Outer]
    /\ CreateFrame

NextCreate ==
    \/ CreateConstruct
    \/ CreateInitialize
    \/ CreateUnwind
    \/ CreateReturn

SpecCreate == InitCreate /\ [][NextCreate]_vars

\* =================================================================== claims
Started(t, op) == pc[t] = "idle" /\ pc'[t] # "idle" /\ call'[t].op = op

IsPointer(v) == v \in {Outer, Member}

\* C1: a QueryInterface with a non-null output location for an interface
\* identity the object implements stores a non-null pointer, performs exactly
\* one increment of the reference count (the AddRef of the match, none in the
\* lookup) and returns Success.
C1_Step(t) ==
    (/\ call'[t].op = "QueryInterface"
     /\ call'[t].out = "valid"
     /\ call'[t].iid \in Implemented(kind))
    => /\ Started(t, "QueryInterface") =>
            /\ pc'[t] = "qi_addref"
            /\ IsPointer(ppObj'[t])
            /\ m_RefCount' = m_RefCount
       /\ (pc[t] = "qi_addref" /\ pc'[t] # "qi_addref") =>
            /\ pc'[t] = "returned"
            /\ ret'[t] = "Success"
            /\ IsPointer(ppObj'[t])
            /\ m_RefCount' = m_RefCount + 1

C1_QueryImplemented == [][\A t \in Threads : C1_Step(t)]_vars

C1_Witness ==
    \E t \in Threads :
        /\ pc[t] = "returned" /\ call[t].op = "QueryInterface"
        /\ call[t].iid \in ContainedIIds /\ call[t].this = Member
        /\ ret[t] = "Success" /\ ppObj[t] = Member /\ m_RefCount = 2

\* C2: a QueryInterface with a non-null output location for an interface
\* identity the object does not implement returns NoInterface at once, stores
\* a null pointer and leaves the reference count unchanged.
C2_Step(t) ==
    (/\ Started(t, "QueryInterface")
     /\ call'[t].out = "valid"
     /\ call'[t].iid \notin Implemented(kind))
    => /\ pc'[t] = "returned"
       /\ ret'[t] = "NoInterface"
       /\ ppObj'[t] = NULL
       /\ m_RefCount' = m_RefCount
       /\ held' = held

C2_QueryNotImplemented == [][\A t \in Threads : C2_Step(t)]_vars

C2_Witness ==
    \E t \in Threads :
        /\ pc[t] = "returned" /\ call[t].op = "QueryInterface"
        /\ call[t].iid \in UnknownIIds /\ kind.map = "MAP"
        /\ ret[t] = "NoInterface" /\ ppObj[t] = NULL /\ m_RefCount = 1

\* C3: a QueryInterface with a null output location returns BadPointer at
\* once, whatever the interface identity and whether it is called on the
\* outer object's pointer or on the aggregated inner object's pointer, and
\* changes neither the reference count nor any output location.
C3_Step(t) ==
    (Started(t, "QueryInterface") /\ call'[t].out = "null")
    => /\ pc'[t] = "returned"
       /\ ret'[t] = "BadPointer"
       /\ m_RefCount' = m_RefCount
       /\ held' = held
       /\ ppObj' = ppObj

C3_NullOutput == [][\A t \in Threads : C3_Step(t)]_vars

C3_Witness ==
    \E t, u \in Threads :
        /\ pc[t] = "returned" /\ call[t].op = "QueryInterface"
        /\ call[t].out = "null" /\ call[t].this = Member
        /\ call[t].iid \in Implemented(kind) /\ ret[t] = "BadPointer"
        /\ pc[u] = "returned" /\ call[u].op = "QueryInterface"
        /\ call[u].out = "null" /\ call[u].this = Outer
        /\ call[u].iid \notin Implemented(kind) /\ ret[u] = "BadPointer"

\* C4: on an object whose count is 1 after creation, the sequence AddRef,
\* Release, Release takes the count to 2, 1, 0; the object is still alive
\* after the first Release and is destroyed exactly once, by the second.
C4_AddRefReleaseRelease ==
    (script[Creator] = ScriptAlone) =>
        /\ (ip[Creator] = 1) => m_RefCount = 1
        /\ (ip[Creator] = 2) => m_RefCount = 2
        /\ (ip[Creator] = 3) => m_RefCount = 1
        /\ (ip[Creator] <= 3) => (alive /\ destroyedBy = <<>>)
        /\ (ip[Creator] = 4 /\ pc[Creator] = "rel_check") =>
              (m_RefCount = 0 /\ result[Creator] = 0 /\ alive /\ destroyedBy = <<>>)
        /\ (ip[Creator] = 4 /\ pc[Creator] \in {"returned", "idle"}) =>
              (~alive /\ Len(destroyedBy) = 1 /\ destroyedBy[1].t = Creator)

C4_Witness ==
    /\ script[Creator] = ScriptAlone
    /\ ip[Creator] = 4 /\ pc[Creator] = "idle"
    /\ ~alive /\ Len(destroyedBy) = 1

\* C5: all answers to a query for XGeneric, whether asked through the outer
\* object's pointer or through the aggregated inner object's pointer, are one
\* and the same pointer.
AnsweredXGeneric(t) ==
    /\ pc[t] = "returned" /\ call[t].op = "QueryInterface"
    /\ call[t].iid = XGeneric_IId /\ call[t].out = "valid"

C5_Identity ==
    \A t, u \in Threads :
        (AnsweredXGeneric(t) /\ AnsweredXGeneric(u)) =>
            (ppObj[t] = ppObj[u] /\ ret[t] = ret[u])

C5_Witness ==
    \E t, u \in Threads :
        /\ AnsweredXGeneric(t) /\ call[t].this = Outer
        /\ AnsweredXGeneric(u) /\ call[u].this = Member
        /\ ppObj[t] = Outer /\ ppObj[u] = Outer
        /\ ret[t] = "Success" /\ ret[u] = "Success"

\* C6: a call made through the aggregated inner object's pointer does to the
\* one reference count, and returns, exactly what TGeneric's own AddRef,
\* Release and QueryInterface do; a match of a contained entry is counted on
\* that same count, and a Release through the inner pointer that brings the
\* count to zero destroys the object.
C6_Step(t) ==
    /\ (Started(t, "AddRef") /\ call'[t].this = Member) =>
          LET r == TGeneric_AddRef(m_RefCount) IN
          m_RefCount' = r.rc /\ result'[t] = r.result /\ r.rc = m_RefCount + 1
    /\ (Started(t, "Release") /\ call'[t].this = Member) =>
          LET r == TGeneric_Release(m_RefCount) IN
          m_RefCount' = r.rc /\ result'[t] = r.result /\ r.rc = m_RefCount - 1
    /\ (Started(t, "QueryInterface") /\ call'[t].this = Member) =>
          LET r == TGeneric_QueryInterface(kind, call'[t].iid, call'[t].out = "null") IN
          /\ pc'[t] = (IF r.addref THEN "qi_addref" ELSE "returned")
          /\ ppObj'[t] = (IF r.write THEN r.ppObj ELSE ppObj[t])
          /\ ~r.addref => ret'[t] = r.res
          /\ m_RefCount' = m_RefCount
    /\ (pc[t] = "qi_addref" /\ pc'[t] = "returned"
            /\ (call[t].this = Member \/ ppObj[t] = Member)) =>
          m_RefCount' = m_RefCount + 1
    /\ (pc[t] = "rel_check" /\ pc'[t] = "returned" /\ call[t].this = Member) =>
          IF result[t] = 0
          THEN ~alive' /\ Len(destroyedBy') = 1
          ELSE alive' = alive /\ destroyedBy' = destroyedBy

C6_InnerForwards == [][\A t \in Threads : C6_Step(t)]_vars

C6_Witness ==
    /\ ~alive /\ Len(destroyedBy) = 1 /\ destroyedBy[1].this = Member
    /\ m_RefCount = 0

\* C7: when the creator holds the only reference (count 1) and each of K
\* worker threads does one AddRef and then one Release, in any interleaving,
\* the object is alive with count 1 once all workers have finished, it is
\* never destroyed before the creator's final Release, and that Release
\* destroys it.
C7_WorkersThenFinalRelease ==
    (script[Creator] = ScriptJoin) =>
        /\ (ip[Creator] <= 3) => (alive /\ destroyedBy = <<>>)
        /\ (ip[Creator] \in 1..3) => m_RefCount >= 1
        /\ (ip[Creator] = 3) =>
              (m_RefCount = 1 /\ \A w \in Workers : ip[w] = 2 /\ held[w] = 0)
        /\ (ip[Creator] = 4 /\ pc[Creator] = "rel_check") =>
              (m_RefCount = 0 /\ alive /\ destroyedBy = <<>>)
        /\ (ip[Creator] = 4 /\ pc[Creator] \in {"returned", "idle"}) =>
              (~alive /\ Len(destroyedBy) = 1 /\ destroyedBy[1].t = Creator)

C7_Witness ==
    /\ script[Creator] = ScriptJoin
    /\ \A w \in Workers : ip[w] = 2
    /\ ip[Creator] = 4 /\ pc[Creator] = "idle"
    /\ ~alive /\ Len(destroyedBy) = 1

\* C8: under concurrent Release calls at most one delete(this) is ever
\* executed, it is executed by a Release that observed the count zero, and
\* once every reference has been given up and every Release has finished
\* exactly one has been executed.
Outstanding == SumOver(held, DOMAIN held)

C8_OneDestroyer ==
    /\ Len(destroyedBy) <= 1
    /\ \A i \in 1..Len(destroyedBy) : destroyedBy[i].observed = 0
    /\ (~fresh /\ Outstanding = 0 /\ \A t \in DOMAIN pc : pc[t] # "rel_check")
          => (Len(destroyedBy) = 1 /\ ~alive)
    /\ (destroyedBy = <<>>) => alive

C8_Witness ==
    /\ Len(destroyedBy) = 1
    /\ \E u \in Threads :
          /\ u # destroyedBy[1].t
          /\ call[u].op = "Release" /\ pc[u] = "rel_check"
          /\ result[u] = 1

\* C9: in every reachable state the reference count equals the number of
\* references the callers hold (the first one, plus AddRefs, plus matched
\* queries, minus Releases); it is never negative and never wraps.
C9_CountIsOutstanding ==
    /\ m_RefCount = Outstanding
    /\ m_RefCount >= 0
    /\ (m_RefCount > 0) => alive

C9_Witness ==
    \E t, u \in Threads :
        /\ t # u
        /\ pc[t] = "rel_check" /\ pc[u] = "qi_addref"
        /\ m_RefCount = 1 /\ held[u] = 1

\* C10 (as claimed): a query for XGeneric::IId with a non-null output
\* location returns Success and a non-null pointer, whatever the kind of the
\* object.
C10_SelfQuerySucceeds ==
    \A t \in Threads :
        (/\ pc[t] = "returned" /\ call[t].op = "QueryInterface"
         /\ call[t].iid = XGeneric_IId /\ call[t].out = "valid")
        => (ret[t] = "Success" /\ IsPointer(ppObj[t]))

\* C11: the object is destroyed only inside a Release call, by the call whose
\* decrement took the count from 1 to 0 (the only decrement that returns 0):
\* an AddRef, a QueryInterface, a Release that leaves the count nonzero and a
\* Release on an object whose count is already 0 never destroy it, and it is
\* destroyed at most once.
C11_Step ==
    /\ (alive /\ ~alive') =>
           \E t \in Threads :
               /\ pc[t] = "rel_check" /\ pc'[t] = "returned"
               /\ call[t].op = "Release"
               /\ result[t] = 0
    /\ \A t \in Threads :
           Started(t, "Release") => (result'[t] = 0 <=> m_RefCount = 1)
    /\ \A t \in Threads :
           (pc[t] = "rel_check" /\ pc'[t] = "returned" /\ result[t] # 0)
               => (alive' = alive /\ destroyedBy' = destroyedBy)
    /\ (\E t \in Threads : pc[t] # "rel_check" /\ pc'[t] # pc[t])
           => alive' = alive
    /\ Len(destroyedBy') <= 1

C11_DestroyedOnlyByLastRelease == [][C11_Step]_vars

C11_Witness ==
    \E t \in Threads :
        /\ pc[t] = "returned" /\ call[t].op = "Release"
        /\ result[t] = -1 /\ m_RefCount = -1
        /\ alive /\ destroyedBy = <<>>

\* the step is the handle operation op
PtrStep(op) == hlast'.op = op

Bump(o, d) == [objRefCount EXCEPT ![o] = @ + d]

\* C12: the effect of the TGemPtr operations on the count: default
\* construction gives an empty handle and touches no count; construction from
\* a non-null raw pointer and copy construction of a non-empty handle call
\* AddRef exactly once; move construction transfers the pointer, empties the
\* source and touches no count; destruction calls Release exactly once on a
\* non-empty handle and nothing on an empty one; Detach returns the raw
\* pointer and empties the handle without a Release.
C12_Step ==
    LET h == hlast'.h
        o == hlast'.src
        p == hlast'.p
    IN  /\ PtrStep("Default") =>
               hp'[h] = NULL /\ objRefCount' = objRefCount
        /\ PtrStep("FromRaw") =>
               /\ hp'[h] = p
               /\ objRefCount' = IF p # NULL THEN Bump(p, 1) ELSE objRefCount
        /\ PtrStep("Copy") =>
               /\ hp'[h] = hp[o] /\ hp'[o] = hp[o]
               /\ objRefCount' = IF hp[o] # NULL THEN Bump(hp[o], 1)
                                 ELSE objRefCount
        /\ PtrStep("Move") =>
               /\ hp'[h] = hp[o] /\ hp'[o] = NULL
               /\ objRefCount' = objRefCount
        /\ PtrStep("Dtor") =>
               /\ hp'[h] = NoHandle
               /\ objRefCount' = IF hp[h] # NULL THEN Bump(hp[h], -1)
                                 ELSE objRefCount
        /\ PtrStep("Detach") =>
               /\ hret' = hp[h]
               /\ hp'[h] = NULL
               /\ objRefCount' = objRefCount

C12_HandleCountEffects == [][C12_Step]_vars

\* the pointer an assignment step assigns to the handle
Assigned ==
    IF hlast'.op = "AssignRaw" THEN hlast'.p ELSE hp[hlast'.src]

\* C13: when a handle holds the only reference to an object (count 1) and
\* is assigned that same pointer, by raw, copy or move assignment, the
\* object is still alive afterwards and its count is unchanged.
C13_Step ==
    \A o \in PtrObjs :
        (/\ hlast'.op \in {"AssignRaw", "AssignCopy", "AssignMove"}
         /\ hp[hlast'.h] = o
         /\ Assigned = o
         /\ oalive[o]
         /\ objRefCount[o] = 1)
        => /\ oalive'[o]
           /\ objRefCount'[o] = 1
           /\ ~uaf'

C13_SameAssignmentKeepsObject == [][C13_Step]_vars

\* the handles that hold a pointer to o
HoldersOf(o) == {h \in Handles : hp[h] = o}

\* C18: after any sequence of handle operations, the count of every live
\* object equals the number of handles that hold it plus the references the
\* caller owns outside handles.
C18_Conservation ==
    \A o \in PtrObjs :
        oalive[o] => objRefCount[o] = Cardinality(HoldersOf(o)) + raw[o]

\* C19: Attach(p) calls Release exactly once on the pointer the handle held
\* (none if it was empty) and stores p without an AddRef; the object the
\* handle points at after Attach was not destroyed by that Attach, also when
\* p is the pointer the handle already held.
C19_Step ==
    LET h == hlast'.h
        p == hlast'.p
    IN  PtrStep("Attach") =>
            /\ hp'[h] = p
            /\ objRefCount' = IF hp[h] # NULL THEN Bump(hp[h], -1)
                              ELSE objRefCount
            /\ p # NULL => (oalive[p] => oalive'[p])

C19_AttachNeverDangles == [][C19_Step]_vars

\* C16: for every Result value, named or not, exactly one of Succeeded and
\* Failed is true; Success and End are successes and the nine named failures
\* are failures, in both definitions of Result.
C16_Partition ==
    rs.phase = "classified" =>
        /\ rs.succeeded # rs.failed
        /\ rs.val \in {Result_Success, Result_End} => rs.succeeded
        /\ rs.val \in NamedFailures(rs.ver) => rs.failed

C16_Witness ==
    /\ rs.phase = "classified"
    /\ rs.ver = 2
    /\ rs.val = Result_Fail(2)
    /\ rs.failed /\ ~rs.succeeded

\* the values returned to the workers so far, and the count at the start of
\* the burst
WorkerEntries == {i \in 1..Len(log) : log[i].t \in Workers}

WorkerValues == {log[i].value : i \in WorkerEntries}

BurstStart == Len(script[Creator]) - 1

BurstDone == \A w \in Workers : NextOp(w) = "end"

\* C17: AddRef returns the count after its own increment and Release the
\* count after its own decrement, 0 exactly when that call destroyed the
\* object: K concurrent AddRef calls on a count of n return n+1 .. n+K, each
\* once, and K concurrent Release calls on a count of n >= K return
\* n-1 .. n-K, each once.
C17_ReturnedCounts ==
    /\ (BurstDone /\ \A w \in Workers : script[w] = <<"AddRef">>) =>
           /\ WorkerValues = (BurstStart + 1)..(BurstStart + NumWorkers)
           /\ Cardinality(WorkerEntries) = NumWorkers
    /\ (BurstDone /\ \A w \in Workers : script[w] = <<"Release">>) =>
           /\ WorkerValues = (BurstStart - NumWorkers)..(BurstStart - 1)
           /\ Cardinality(WorkerEntries) = NumWorkers
    /\ \A i \in 1..Len(log) :
           (log[i].op = "Release" /\ pc[log[i].t] # "rel_check") =>
               (log[i].value = 0 <=>
                    \E j \in 1..Len(destroyedBy) : destroyedBy[j].t = log[i].t)

C17_Witness ==
    /\ BurstDone
    /\ \A w \in Workers : script[w] = <<"Release">> /\ pc[w] = "returned"
    /\ BurstStart = NumWorkers
    /\ 0 \in WorkerValues
    /\ ~alive

\* C15: a QueryInterface with a non-null output location for the identity
\* of a contained entry whose inner object is absent returns BadPointer,
\* stores no non-null pointer and does not increment the count.
C15_Step(t) ==
    (/\ Started(t, "QueryInterface")
     /\ call'[t].out = "valid"
     /\ call'[t].iid \in kind.contained
     /\ ~innerPresent)
    => /\ pc'[t] = "returned"
       /\ ret'[t] = "BadPointer"
       /\ ~IsPointer(ppObj'[t])
       /\ m_RefCount' = m_RefCount

C15_AbsentInnerBadPointer == [][\A t \in Threads : C15_Step(t)]_vars

\* C14: when the initialization hook returns a failure, Create returns that
\* same code and no pointer, and the partially built object has been
\* destroyed when Create returns; a pointer is handed out only for a fully
\* initialized, live object.
C14_FailedInitialization ==
    /\ (cr.phase = "returned" /\ cr.obj # "none" /\ Failed(cr.ver, cr.hook)) =>
           /\ cr.ret = cr.hook
           /\ cr.ptr = NULL
           /\ cr.obj = "destroyed"
    /\ cr.ptr # NULL => (cr.obj = "live" /\ ~Failed(cr.ver, cr.hook))

C14_Witness ==
    /\ cr.phase = "returned"
    /\ cr.ver = 1
    /\ cr.hook = Result_Failure(1, 2)
    /\ cr.ret = Result_Failure(1, 2)
    /\ cr.obj = "destroyed" /\ cr.ptr = NULL

TypeOK ==
    /\ kind \in Kinds
    /\ m_RefCount \in INT32_MIN..INT32_MAX
    /\ alive \in BOOLEAN
    /\ \A t \in DOMAIN pc : pc[t] \in {"idle", "rel_check", "qi_addref", "returned"}
====
